---- MODULE Spec2Model ----
(***************************************************************************)
(* Model of onnx/src/read_proto/proto_structure.rs (ProtoAnnotation,       *)
(* ProtoAttribute, KindOf, Proto) and onnx/src/relu_op.rs (relu).          *)
(*                                                                         *)
(* A Proto owns its two HashMaps and, through `contents`, every nested     *)
(* Proto.  Owned values are kept in a heap of cells so that ownership      *)
(* (one owner per Proto, no sharing) is a property of the model and not    *)
(* an assumption of its notation.                                          *)
(***************************************************************************)
EXTENDS Integers, Sequences, FiniteSets, TLC

\* ------------------------------------------------------------------ bounds
MaxNodes == 4
MaxOps == 6
MaxCloneOps == 5
MaxLoadOps == 4
MaxLen == 3
MaxDim == 2
MaxElems == 4
MaxMag == 1

\* ------------------------------------------------------- Option<T> values
None == [some |-> FALSE]
Some(v) == [some |-> TRUE, val |-> v]

\* ------------------------------------------------------- ProtoAnnotation
ProtoAnnotation == {"Optional", "Repeated", "Required", "Map"}
\* variant: #[default] on another variant
ProtoAnnotationDefaultMoved == "Repeated"
ProtoAnnotationDefault == "Optional"

\* a &str is its characters, in order
KwOptional == <<"o", "p", "t", "i", "o", "n", "a", "l">>
KwRepeated == <<"r", "e", "p", "e", "a", "t", "e", "d">>
KwRequired == <<"r", "e", "q", "u", "i", "r", "e", "d">>
KwMap == <<"m", "a", "p">>

\* Result<ProtoAnnotation, ParseProtoAnnotationError>
Ok(v) == [ok |-> TRUE, val |-> v]
ParseProtoAnnotationError == [ok |-> FALSE]

LowerCase == <<"a", "d", "e", "i", "l", "m", "n", "o", "p", "q", "r", "t", "u">>
UpperCase == <<"A", "D", "E", "I", "L", "M", "N", "O", "P", "Q", "R", "T", "U">>
ToUpperChar(c) ==
  IF \E i \in DOMAIN LowerCase : LowerCase[i] = c
  THEN UpperCase[CHOOSE i \in DOMAIN LowerCase : LowerCase[i] = c] ELSE c
ToLowerChar(c) ==
  IF \E i \in DOMAIN UpperCase : UpperCase[i] = c
  THEN LowerCase[CHOOSE i \in DOMAIN UpperCase : UpperCase[i] = c] ELSE c
ToUpper(s) == [i \in 1..Len(s) |-> ToUpperChar(s[i])]
ToLower(s) == [i \in 1..Len(s) |-> ToLowerChar(s[i])]
Capitalize(s) == [i \in 1..Len(s) |-> IF i = 1 THEN ToUpperChar(s[i]) ELSE s[i]]

\* match s { "optional" => .., "repeated" => .., "required" => .., "map" => .., _ => Err }
Match(s) ==
  CASE s = KwOptional -> Ok("Optional")
    [] s = KwRepeated -> Ok("Repeated")
    [] s = KwRequired -> Ok("Required")
    [] s = KwMap -> Ok("Map")
    [] OTHER -> ParseProtoAnnotationError
\* variant: the keyword is matched whatever its case
FromStrIgnoreCase(s) == Match(ToLower(s))
\* <ProtoAnnotation as FromStr>::from_str
FromStr(s) == Match(s)

\* --------------------------------------------------------- ProtoAttribute
StringDefault == ""
MkAttribute(an, nm, ty) ==
  [annotation |-> an, attribute_name |-> nm, attribute_type |-> ty]
ProtoAttributeNew ==
  MkAttribute(ProtoAnnotationDefault, StringDefault, StringDefault)

\* ----------------------------------------------------------------- KindOf
KindOf == {"Message", "OneOf", "Enum"}
KindOfDefault == "Message"

\* ---------------------------------------------------------------- HashMap
EmptyMap == [k \in {} |-> None]
\* variant: or_insert, the entry already stored under the key is kept
HashMapInsertKeepOld(m, k, v) ==
  [x \in (DOMAIN m) \cup {k} |-> IF x \in DOMAIN m THEN m[x] ELSE v]
\* variant: the map is rebuilt from the one entry
HashMapInsertOnly(m, k, v) == [x \in {k} |-> v]
\* variant: indexing, map[&k], which panics when the key is missing
HashMapIndex(m, k) ==
  IF k \in DOMAIN m THEN Some(m[k]) ELSE [some |-> FALSE, panic |-> TRUE]
HashMapInsert(m, k, v) ==
  [x \in (DOMAIN m) \cup {k} |-> IF x = k THEN v ELSE m[x]]
HashMapGet(m, k) == IF k \in DOMAIN m THEN Some(m[k]) ELSE None

\* ------------------------------------------------------------------ Proto
\* variant: the argument is dropped, the kind is the default one
ProtoNewDefaultKind(kind_of) ==
  [kind_of |-> "Message", attributes |-> EmptyMap, contents |-> EmptyMap]
ProtoNew(kind_of) ==
  [kind_of |-> kind_of, attributes |-> EmptyMap, contents |-> EmptyMap]
ProtoDefault ==
  [kind_of |-> KindOfDefault, attributes |-> EmptyMap, contents |-> EmptyMap]

\* ------------------------------------------- the heap of owned Proto cells
NodeIds == 1..MaxNodes
NoNode == 0
FreeCell == [kind_of |-> "free", attributes |-> EmptyMap, contents |-> EmptyMap]
Live(h, n) == n \in NodeIds /\ h[n].kind_of # "free"
FreeIds(h) == {n \in NodeIds : ~Live(h, n)}
Children(h, n) == {h[n].contents[nm] : nm \in DOMAIN h[n].contents}

RECURSIVE Reach(_, _, _)
Reach(h, S, fuel) ==
  IF fuel = 0 THEN S
  ELSE LET T == S \cup UNION {Children(h, n) : n \in {x \in S : x \in NodeIds}}
       IN IF T = S THEN S ELSE Reach(h, T, fuel - 1)
Subtree(h, n) == IF n = NoNode THEN {} ELSE Reach(h, {n}, MaxNodes + 1)

\* the value a Proto denotes: kind, attributes and, recursively, contents
RECURSIVE TreeOf(_, _, _)
TreeOf(h, n, fuel) ==
  IF ~Live(h, n) THEN [dangling |-> n]
  ELSE IF fuel = 0 THEN [cut |-> n]
  ELSE [kind_of |-> h[n].kind_of,
        attributes |-> h[n].attributes,
        contents |-> [nm \in DOMAIN h[n].contents |->
                        TreeOf(h, h[n].contents[nm], fuel - 1)]]
Tree(h, n) == TreeOf(h, n, MaxNodes + 1)

DropAll(h, S) == [n \in NodeIds |-> IF n \in S THEN FreeCell ELSE h[n]]

\* --------------------------------------------------------------- lookups
\* variant: a tag missing in p is looked for in the Protos nested in p
LookupAttributeNested(h, n, tag) ==
  LET own == HashMapGet(h[n].attributes, tag)
      in == {c \in Children(h, n) : tag \in DOMAIN h[c].attributes}
  IN IF own.some \/ in = {} THEN own
     ELSE Some(h[CHOOSE c \in in : TRUE].attributes[tag])
\* p.attributes.get(&tag) and p.contents.get(&name)
LookupAttribute(h, n, tag) == HashMapGet(h[n].attributes, tag)
LookupContent(h, n, name) == HashMapGet(h[n].contents, name)

\* the Proto reached from `root` by descending through contents, name by name
RECURSIVE Resolve(_, _, _)
Resolve(h, root, path) ==
  IF ~Live(h, root) THEN NoNode
  ELSE IF path = <<>> THEN root
  ELSE LET c == LookupContent(h, root, Head(path))
       IN IF c.some THEN Resolve(h, c.val, Tail(path)) ELSE NoNode

\* ------------------------------------------------- #[derive(Clone)] Proto
Rank(S, x) == Cardinality({y \in S : y < x}) + 1
Nth(S, k) == CHOOSE x \in S : Rank(S, x) = k
\* where each cell of the cloned tree is allocated
CloneMap(h, n) ==
  [o \in Subtree(h, n) |-> Nth(FreeIds(h), Rank(Subtree(h, n), o))]
CloneCell(cell, map) ==
  [kind_of |-> cell.kind_of,
   attributes |-> cell.attributes,
   contents |-> [nm \in DOMAIN cell.contents |-> map[cell.contents[nm]]]]
\* variant: the maps are copied, the nested Protos are shared
ProtoCloneShallow(h, n) ==
  LET c == Nth(FreeIds(h), 1)
  IN [heap |-> [h EXCEPT ![c] = h[n]], root |-> c]
ProtoClone(h, n) ==
  LET map == CloneMap(h, n)
      new == {map[o] : o \in DOMAIN map}
      from(c) == CHOOSE o \in DOMAIN map : map[o] = c
  IN [heap |-> [c \in NodeIds |->
                  IF c \in new THEN CloneCell(h[from(c)], map) ELSE h[c]],
      root |-> map[n]]

\* ------------------------------------------------ the operations on Proto
\* p.attributes.insert(tag, attribute): the heap after it, and what it returns
InsertAttribute(h, n, tag, attribute) ==
  [heap |-> [h EXCEPT ![n].attributes = HashMapInsert(@, tag, attribute)],
   ret |-> HashMapGet(h[n].attributes, tag)]

\* p.contents.insert(name, child): the child is moved in, the Proto stored
\* before under that name is returned and dropped with everything it owns
InsertContent(h, n, name, child) ==
  LET old == HashMapGet(h[n].contents, name)
      h1 == [h EXCEPT ![n].contents = HashMapInsert(@, name, child)]
  IN [heap |-> IF old.some THEN DropAll(h1, Subtree(h, old.val)) ELSE h1,
      ret |-> old]

\* ------------------------------------------------------------------ state
Slots == {"a", "b"}
Tags == {3, 5}
Names == {"Address", "Inner"}
City == MkAttribute("Optional", "city", "string")
Attributes == {City}

\* keys that are looked up: the ones in use and some that never are
ProbeTags == Tags \cup {-1, 0, 1}
ProbeNames == Names \cup {"", "Anything"}

\* access paths: the sequences of names by which `root` reaches a Proto
RECURSIVE PathsFrom(_, _, _)
PathsFrom(h, root, fuel) ==
  IF ~Live(h, root) THEN {}
  ELSE IF fuel = 0 THEN {<<>>}
  ELSE {<<>>} \cup
       UNION {{<<nm>> \o p : p \in PathsFrom(h, h[root].contents[nm], fuel - 1)} :
                nm \in DOMAIN h[root].contents}
IsPrefix(p, q) == Len(p) <= Len(q) /\ SubSeq(q, 1, Len(p)) = p

VARIABLES
  heap,     \* NodeIds -> Proto cell (FreeCell when not allocated)
  slots,    \* the loader's local variables: Slots -> NodeIds \cup {NoNode}
  hist,     \* history: how each live Proto was made and what was inserted
  op,       \* the operation performed last, with its arguments and result
  nops,     \* number of loader operations performed
  budget,   \* number of loader operations this run may perform
  published,\* whether loading has completed, and the tree as it was then
  rd,       \* what each decoder thread is doing
  parse,    \* the last call of from_str: its input and its result
  relu      \* the calls of relu: the input and the outputs

loaderVars == <<heap, slots, hist, op, nops, budget>>
readerVars == <<published, rd>>
pureVars == <<parse, relu>>
vars == <<loaderVars, readerVars, pureVars>>

NoHist == [kind_of |-> "free", attributes |-> EmptyMap, names |-> {}, origin |-> NoNode]
NewHist(kind_of) == [NoHist EXCEPT !.kind_of = kind_of]

At(s, path) == Resolve(heap, slots[s], path)
Paths(s) == PathsFrom(heap, slots[s], MaxNodes)

\* the history of the cells that are live in h, with `names` grown at n
HistAfter(h, hs, n, added) ==
  [x \in NodeIds |->
     IF ~Live(h, x) THEN NoHist
     ELSE [hs[x] EXCEPT
             !.names = IF x = n THEN @ \cup added ELSE @,
             !.origin = IF Live(h, @) THEN @ ELSE NoNode]]

Readers == {"d1", "d2"}
Loading == [done |-> FALSE]
IdleReaders ==
  /\ published = Loading
  /\ rd = [r \in Readers |-> [pc |-> "idle"]]

IdlePure ==
  /\ parse = [done |-> FALSE]
  /\ relu = [pc |-> "idle"]

InitLoader ==
  /\ IdleReaders
  /\ IdlePure
  /\ heap = [n \in NodeIds |-> FreeCell]
  /\ slots = [s \in Slots |-> NoNode]
  /\ hist = [n \in NodeIds |-> NoHist]
  /\ op = [name |-> "none"]
  /\ nops = 0

Init ==
  /\ InitLoader
  /\ budget = MaxOps

\* an operation of the loader: the tree is being built, nobody else has it
Tick ==
  /\ ~published.done
  /\ nops < budget
  /\ nops' = nops + 1
  /\ UNCHANGED <<budget, readerVars, pureVars>>

\* let s = Proto::new(kind_of);
New(s, kind_of) ==
  /\ Tick
  /\ slots[s] = NoNode
  /\ FreeIds(heap) # {}
  /\ LET n == Nth(FreeIds(heap), 1)
     IN /\ heap' = [heap EXCEPT ![n] = ProtoNew(kind_of)]
        /\ slots' = [slots EXCEPT ![s] = n]
        /\ hist' = [hist EXCEPT ![n] = NewHist(kind_of)]
        /\ op' = [name |-> "New", node |-> n, kind_of |-> kind_of]

\* let s = Proto::default();
Default(s) ==
  /\ Tick
  /\ slots[s] = NoNode
  /\ FreeIds(heap) # {}
  /\ LET n == Nth(FreeIds(heap), 1)
     IN /\ heap' = [heap EXCEPT ![n] = ProtoDefault]
        /\ slots' = [slots EXCEPT ![s] = n]
        /\ hist' = [hist EXCEPT ![n] = NewHist("Message")]
        /\ op' = [name |-> "Default", node |-> n]

\* p.attributes.insert(tag, attribute), p reached as s.contents[..]...
DoInsertAttribute(s, path, tag, attribute) ==
  /\ Tick
  /\ At(s, path) # NoNode
  /\ LET n == At(s, path)
         r == InsertAttribute(heap, n, tag, attribute)
     IN /\ heap' = r.heap
        /\ op' = [name |-> "InsertAttribute", slot |-> s, path |-> path,
                  node |-> n, tag |-> tag, attribute |-> attribute,
                  ret |-> r.ret]
        /\ hist' = [hist EXCEPT ![n].attributes =
                      [t \in (DOMAIN @) \cup {tag} |->
                         IF t = tag THEN attribute ELSE @[t]]]
  /\ UNCHANGED slots

\* p.attributes.insert(tag, ProtoAttribute::new()): the seed, not filled in
DoInsertSeed(s, path, tag) ==
  /\ Tick
  /\ At(s, path) # NoNode
  /\ LET n == At(s, path)
         r == InsertAttribute(heap, n, tag, ProtoAttributeNew)
     IN /\ heap' = r.heap
        /\ op' = [name |-> "InsertSeed", slot |-> s, path |-> path,
                  node |-> n, tag |-> tag, attribute |-> ProtoAttributeNew,
                  ret |-> r.ret]
        /\ hist' = [hist EXCEPT ![n].attributes =
                      [t \in (DOMAIN @) \cup {tag} |->
                         IF t = tag
                         THEN MkAttribute("Optional", "", "")
                         ELSE @[t]]]
  /\ UNCHANGED slots

\* p.contents.insert(name, d): the local d is moved into p (p is not in d:
\* a value cannot be moved while it is borrowed)
DoInsertContent(s, path, name, d) ==
  /\ Tick
  /\ At(s, path) # NoNode
  /\ slots[d] # NoNode
  /\ d # s
  /\ LET n == At(s, path)
         r == InsertContent(heap, n, name, slots[d])
     IN /\ heap' = r.heap
        /\ op' = [name |-> "InsertContent", slot |-> s, path |-> path,
                  node |-> n, key |-> name, from |-> d,
                  given |-> Tree(heap, slots[d]), ret |-> r.ret]
        /\ hist' = HistAfter(r.heap, hist, n, {name})
  /\ slots' = [slots EXCEPT ![d] = NoNode]

\* p.contents.insert(name, d.clone()): the loader keeps d
DoInsertClone(s, path, name, d) ==
  /\ Tick
  /\ At(s, path) # NoNode
  /\ slots[d] # NoNode
  /\ Cardinality(FreeIds(heap)) >= Cardinality(Subtree(heap, slots[d]))
  /\ LET n == At(s, path)
         c == ProtoClone(heap, slots[d])
         map == CloneMap(heap, slots[d])
         r == InsertContent(c.heap, n, name, c.root)
         h1 == [x \in NodeIds |->
                  IF \E o \in DOMAIN map : map[o] = x
                  THEN LET o == CHOOSE o \in DOMAIN map : map[o] = x
                       IN [hist[o] EXCEPT !.origin = o]
                  ELSE hist[x]]
     IN /\ heap' = r.heap
        /\ op' = [name |-> "InsertClone", slot |-> s, path |-> path,
                  node |-> n, key |-> name, from |-> d,
                  given |-> Tree(heap, slots[d]), ret |-> r.ret]
        /\ hist' = HistAfter(r.heap, h1, n, {name})
  /\ UNCHANGED slots

Next ==
  \/ \E s \in Slots, k \in KindOf : New(s, k)
  \/ \E s \in Slots : Default(s)
  \/ \E s \in Slots : \E p \in Paths(s), t \in Tags, a \in Attributes :
        DoInsertAttribute(s, p, t, a)
  \/ \E s \in Slots : \E p \in Paths(s), t \in Tags : DoInsertSeed(s, p, t)
  \/ \E s \in Slots : \E p \in Paths(s), nm \in Names, d \in Slots :
        DoInsertContent(s, p, nm, d)

Spec == Init /\ [][Next]_vars

\* the loader that also keeps copies of what it inserts
CloneKinds == {"Message", "OneOf"}
CloneTags == {3}

InitClone ==
  /\ InitLoader
  /\ budget = MaxCloneOps

NextClone ==
  \/ \E s \in Slots, k \in CloneKinds : New(s, k)
  \/ \E s \in Slots : \E p \in Paths(s), t \in CloneTags, a \in Attributes :
        DoInsertAttribute(s, p, t, a)
  \/ \E s \in Slots : \E p \in Paths(s), nm \in Names, d \in Slots :
        DoInsertContent(s, p, nm, d)
  \/ \E s \in Slots : \E p \in Paths(s), nm \in Names, d \in Slots :
        DoInsertClone(s, p, nm, d)

SpecClone == InitClone /\ [][NextClone]_vars

\* ------------------------------------------------ the decoders' lookups
\* variant: entry(tag).or_default(), which declares the tag it looks up
ReadAttributeOrDefault(h, n, tag) ==
  [heap |-> [h EXCEPT ![n].attributes =
               IF tag \in DOMAIN @ THEN @ ELSE HashMapInsert(@, tag, ProtoAttributeNew)],
   ret |-> IF tag \in DOMAIN h[n].attributes
           THEN Some(h[n].attributes[tag]) ELSE Some(ProtoAttributeNew)]
\* p.attributes.get(&tag) through a shared reference: the tree after it, and
\* what it returns
ReadAttribute(h, n, tag) ==
  [heap |-> h, ret |-> LookupAttribute(h, n, tag)]
\* p.contents.get(&name) through a shared reference; the nested Proto that is
\* returned is given by value
ReadContent(h, n, name) ==
  LET c == LookupContent(h, n, name)
  IN [heap |-> h, ret |-> IF c.some THEN Some(Tree(h, c.val)) ELSE None]

LoadKinds == {"Message", "OneOf"}
LoadTags == {3}
LoadNames == {"Address"}
ReadTags == LoadTags \cup {0}
ReadNames == LoadNames \cup {"Anything"}

InitReaders ==
  /\ InitLoader
  /\ budget = MaxLoadOps

\* loading has completed: the tree is handed to the decoders, read-only
Publish ==
  /\ ~published.done
  /\ \E s \in Slots : slots[s] # NoNode
  /\ published' = [done |-> TRUE, heap |-> heap, slots |-> slots]
  /\ UNCHANGED <<loaderVars, rd, pureVars>>

\* a decoder starts a lookup in a Proto it reached from a top-level definition
Call(r, what, s, path, key) ==
  /\ published.done
  /\ rd[r].pc # "called"
  /\ rd' = [rd EXCEPT ![r] = [pc |-> "called", what |-> what, slot |-> s,
                               path |-> path, key |-> key]]
  /\ UNCHANGED <<loaderVars, published, pureVars>>

\* the lookup is performed and returns
Return(r) ==
  /\ published.done
  /\ rd[r].pc = "called"
  /\ LET n == At(rd[r].slot, rd[r].path)
         res == IF rd[r].what = "attribute"
                THEN ReadAttribute(heap, n, rd[r].key)
                ELSE ReadContent(heap, n, rd[r].key)
     IN /\ heap' = res.heap
        /\ rd' = [rd EXCEPT ![r] = [@ EXCEPT !.pc = "returned"] @@ [ret |-> res.ret]]
  /\ UNCHANGED <<slots, hist, op, nops, budget, published, pureVars>>

NextReaders ==
  \/ \E s \in Slots, k \in LoadKinds : New(s, k)
  \/ \E s \in Slots : \E p \in Paths(s), t \in LoadTags, a \in Attributes :
        DoInsertAttribute(s, p, t, a)
  \/ \E s \in Slots : \E p \in Paths(s), nm \in LoadNames, d \in Slots :
        DoInsertContent(s, p, nm, d)
  \/ Publish
  \/ \E r \in Readers, s \in Slots : \E p \in Paths(s), t \in ReadTags :
        Call(r, "attribute", s, p, t)
  \/ \E r \in Readers, s \in Slots : \E p \in Paths(s), nm \in ReadNames :
        Call(r, "content", s, p, nm)
  \/ \E r \in Readers : Return(r)

SpecReaders == InitReaders /\ [][NextReaders]_vars

\* ------------------------------------------------------- calls of from_str
ShortAlphabet == {"m", "a", "p", "M", " "}
RECURSIVE StringsOfLen(_)
StringsOfLen(k) ==
  IF k = 0 THEN {<<>>}
  ELSE {<<c>> \o w : c \in ShortAlphabet, w \in StringsOfLen(k - 1)}
Keywords == {KwOptional, KwRepeated, KwRequired, KwMap}
ParseInputs ==
  Keywords
    \cup {ToUpper(k) : k \in Keywords}
    \cup {Capitalize(k) : k \in Keywords}
    \cup {<<" ">> \o k : k \in Keywords}
    \cup {k \o <<" ">> : k \in Keywords}
    \cup {k \o <<"s">> : k \in Keywords}
    \cup UNION {{SubSeq(k, 1, n) : n \in 0..Len(k)} : k \in Keywords}
    \cup UNION {StringsOfLen(n) : n \in 0..MaxLen}

InitParse ==
  /\ heap = [n \in NodeIds |-> FreeCell]
  /\ slots = [s \in Slots |-> NoNode]
  /\ hist = [n \in NodeIds |-> NoHist]
  /\ op = [name |-> "none"]
  /\ nops = 0
  /\ budget = 0
  /\ IdleReaders
  /\ parse = [done |-> FALSE]
  /\ relu = [pc |-> "idle"]

\* let r = token.parse::<ProtoAnnotation>();
Parse(s) ==
  /\ parse' = [done |-> TRUE, input |-> s, result |-> FromStr(s)]
  /\ UNCHANGED <<loaderVars, readerVars, relu>>

NextParse == \E s \in ParseInputs : Parse(s)

SpecParse == InitParse /\ [][NextParse]_vars

\* ------------------------------------------------------------ f32, Array4
\* an f32: a NaN, or a sign and a magnitude (so that -0.0 is not 0.0)
F32(neg, mag) == [nan |-> FALSE, neg |-> neg, mag |-> mag]
NaN == [nan |-> TRUE, neg |-> FALSE, mag |-> 0]
Zero == F32(FALSE, 0)
Num(a) == IF a.neg THEN 0 - a.mag ELSE a.mag
\* the comparisons of f32: false when an operand is NaN, -0.0 == 0.0
F32Lt(a, b) == ~a.nan /\ ~b.nan /\ Num(a) < Num(b)
F32Eq(a, b) == ~a.nan /\ ~b.nan /\ Num(a) = Num(b)
\* f32::max: the other operand when one is NaN; either one when they
\* compare equal, as 0.0 and -0.0 do
F32Max(a, b) ==
  IF a.nan THEN {b}
  ELSE IF b.nan THEN {a}
  ELSE IF F32Lt(a, b) THEN {b}
  ELSE IF F32Lt(b, a) THEN {a}
  ELSE {a, b}
F32Min(a, b) ==
  IF a.nan THEN {b}
  ELSE IF b.nan THEN {a}
  ELSE IF F32Lt(a, b) THEN {a}
  ELSE IF F32Lt(b, a) THEN {b}
  ELSE {a, b}

\* an Array4<f32>: its shape and its elements in row-major order
Size(shape) == shape[1] * shape[2] * shape[3] * shape[4]
Array(shape, data) == [shape |-> shape, data |-> data]
Indices(shape) ==
  {<<i, j, k, l>> : i \in 0..(shape[1] - 1), j \in 0..(shape[2] - 1),
                    k \in 0..(shape[3] - 1), l \in 0..(shape[4] - 1)}
Offset(shape, ix) ==
  1 + ((ix[1] * shape[2] + ix[2]) * shape[3] + ix[3]) * shape[4] + ix[4]
ElemAt(a, ix) == a.data[Offset(a.shape, ix)]

\* variant: min in the place of max
ReluElemMin(val) == F32Min(val, Zero)
\* |&val| val.max(0.0)
ReluElem(val) == F32Max(val, Zero)
\* x.map(f): the arrays it can return, one element of f's for each element
RECURSIVE MapSeq(_)
MapSeq(data) ==
  IF data = <<>> THEN {<<>>}
  ELSE {<<v>> \o rest : v \in ReluElem(Head(data)), rest \in MapSeq(Tail(data))}
\* relu(&x): x after the call, and the array returned
Relu(x) == {[x |-> x, out |-> Array(x.shape, d)] : d \in MapSeq(x.data)}

\* ------------------------------------------------------------ calls of relu
F32Values == {NaN} \cup {F32(neg, mag) : neg \in BOOLEAN, mag \in 0..MaxMag}
Shapes ==
  {sh \in [1..4 -> 0..MaxDim] : Size(sh) <= MaxElems}
RECURSIVE DataOfLen(_)
DataOfLen(k) ==
  IF k = 0 THEN {<<>>}
  ELSE {<<v>> \o rest : v \in F32Values, rest \in DataOfLen(k - 1)}
\* the input and the expected output of test_relu
TestValues ==
  <<0, 1, 2, 3, 4, 5, 6, 7, 8, 9, 10, 11, 12, 13, 14, 15, 16, -17, 18, 19,
    20, 21, 22, 23, 24, 25, 26, 27, 28, 29, 30, 31, 32, 33, 34>>
TestExpected ==
  <<0, 1, 2, 3, 4, 5, 6, 7, 8, 9, 10, 11, 12, 13, 14, 15, 16, 0, 18, 19,
    20, 21, 22, 23, 24, 25, 26, 27, 28, 29, 30, 31, 32, 33, 34>>
OfInt(i) == IF i < 0 THEN F32(TRUE, 0 - i) ELSE F32(FALSE, i)
TestInput ==
  Array(<<1, 1, 7, 5>>, [i \in 1..Len(TestValues) |-> OfInt(TestValues[i])])
TestOutput ==
  Array(<<1, 1, 7, 5>>, [i \in 1..Len(TestExpected) |-> OfInt(TestExpected[i])])
ReluInputs ==
  {TestInput} \cup
  UNION {{Array(sh, d) : d \in DataOfLen(Size(sh))} : sh \in Shapes}

InitRelu ==
  /\ heap = [n \in NodeIds |-> FreeCell]
  /\ slots = [s \in Slots |-> NoNode]
  /\ hist = [n \in NodeIds |-> NoHist]
  /\ op = [name |-> "none"]
  /\ nops = 0
  /\ budget = 0
  /\ IdleReaders
  /\ parse = [done |-> FALSE]
  /\ \E a \in ReluInputs : relu = [pc |-> "start", x |-> a]

\* let y = relu(&x);
CallRelu ==
  /\ relu.pc = "start"
  /\ \E r \in Relu(relu.x) :
       relu' = [pc |-> "once", given |-> relu.x, x |-> r.x, y |-> r.out]
  /\ UNCHANGED <<loaderVars, readerVars, parse>>

\* let yy = relu(&y);
CallReluAgain ==
  /\ relu.pc = "once"
  /\ \E r \in Relu(relu.y) :
       relu' = [relu EXCEPT !.pc = "twice"] @@ [yy |-> r.out]
  /\ UNCHANGED <<loaderVars, readerVars, parse>>

NextRelu == CallRelu \/ CallReluAgain

SpecRelu == InitRelu /\ [][NextRelu]_vars

\* ------------------------------------------------------------ properties
\* what p.contents holds under a name, by value
Stored(h, n, name) ==
  LET c == LookupContent(h, n, name)
  IN IF c.some THEN Tree(h, c.val) ELSE None
Seed == [annotation |-> "Optional", attribute_name |-> "", attribute_type |-> ""]

\* C2: an insert is last-write-wins and local to its key.  After
\* InsertAttribute(t, A) the lookup of t gives A, also when t was already
\* declared; every other tag, the kind and the contents are as before.
\* InsertContent(name, D) stores D under the name, replacing what was there,
\* and leaves the other names, the attributes and the kind as before.
C2Step ==
  /\ op'.name \in {"InsertAttribute", "InsertSeed"} =>
       LET n == op'.node
       IN /\ LookupAttribute(heap', n, op'.tag) = Some(op'.attribute)
          /\ \A u \in ProbeTags \ {op'.tag} :
               LookupAttribute(heap', n, u) = LookupAttribute(heap, n, u)
          /\ heap'[n].kind_of = heap[n].kind_of
          /\ \A nm \in ProbeNames : Stored(heap', n, nm) = Stored(heap, n, nm)
  /\ op'.name = "InsertContent" =>
       LET n == op'.node
       IN /\ Stored(heap', n, op'.key) = op'.given
          /\ \A nm \in ProbeNames \ {op'.key} :
               Stored(heap', n, nm) = Stored(heap, n, nm)
          /\ \A u \in ProbeTags :
               LookupAttribute(heap', n, u) = LookupAttribute(heap, n, u)
          /\ heap'[n].kind_of = heap[n].kind_of
C2_LastWriteWins == [][C2Step]_vars
\* an attribute was overwritten by a different one, in a Proto that has
\* another tag and a nested Proto
C2_Witness ==
  /\ op.name = "InsertAttribute"
  /\ op.ret.some
  /\ op.ret.val # op.attribute
  /\ \E u \in Tags \ {op.tag} : LookupAttribute(heap, op.node, u).some
  /\ DOMAIN heap[op.node].contents # {}

\* C4: Proto::new(k) has kind k and nothing in it: every lookup is absent.
C4_ConstructEmpty ==
  op.name = "New" =>
    /\ heap[op.node].kind_of = op.kind_of
    /\ \A t \in ProbeTags : LookupAttribute(heap, op.node, t) = None
    /\ \A nm \in ProbeNames : LookupContent(heap, op.node, nm) = None
\* an Enum was constructed while another Proto holds attributes
C4_Witness ==
  /\ op.name = "New"
  /\ op.kind_of = "Enum"
  /\ \E m \in NodeIds \ {op.node} : DOMAIN heap[m].attributes # {}

\* C5: lookups at different nesting levels are independent.  Every Proto
\* reached by descending through contents gives, for each tag, the attribute
\* inserted at that Proto and nothing for a tag inserted only above or below
\* it; a nested Proto is found with the kind it was constructed with, and a
\* name with nothing stored under it is absent.
C5_LevelsIndependent ==
  \A s \in Slots : \A p \in Paths(s) :
    LET n == At(s, p)
    IN /\ \A t \in ProbeTags :
            LookupAttribute(heap, n, t) =
              IF t \in DOMAIN hist[n].attributes
              THEN Some(hist[n].attributes[t]) ELSE None
       /\ \A nm \in ProbeNames :
            LET c == LookupContent(heap, n, nm)
            IN IF nm \in hist[n].names
               THEN c.some /\ heap[c.val].kind_of = hist[c.val].kind_of
               ELSE c = None
       /\ \A q \in Paths(s) :
            (IsPrefix(p, q) /\ p # q) =>
               \A t \in ProbeTags :
                 LET m == At(s, q)
                 IN /\ (t \in DOMAIN hist[n].attributes
                         /\ t \notin DOMAIN hist[m].attributes)
                       => LookupAttribute(heap, m, t) = None
                    /\ (t \in DOMAIN hist[m].attributes
                         /\ t \notin DOMAIN hist[n].attributes)
                       => LookupAttribute(heap, n, t) = None
\* message -> oneof -> message, a tag declared in the oneof only
C5_Witness ==
  \E s \in Slots :
    LET root == slots[s]
        c == At(s, <<"Address">>)
        g == At(s, <<"Address", "Inner">>)
    IN /\ c # NoNode /\ g # NoNode
       /\ heap[root].kind_of = "Message"
       /\ heap[c].kind_of = "OneOf"
       /\ heap[g].kind_of = "Message"
       /\ LookupAttribute(heap, c, 3).some
       /\ LookupAttribute(heap, root, 3) = None
       /\ LookupAttribute(heap, g, 3) = None
       /\ LookupContent(heap, c, "Anything") = None

\* C6: the defaults.  ProtoAnnotation::default() is Optional, KindOf::default()
\* is Message, ProtoAttribute::new() is (Optional, "", ""), and the seed is
\* stored as it is: nothing rejects the empty name or type.
C6_Defaults ==
  /\ ProtoAnnotationDefault = "Optional"
  /\ KindOfDefault = "Message"
  /\ ProtoAttributeNew = Seed
  /\ op.name = "Default" => heap[op.node].kind_of = "Message"
  /\ op.name = "InsertSeed" =>
       LookupAttribute(heap, op.node, op.tag) = Some(Seed)
\* a seed was inserted into a Proto
C6_Witness ==
  /\ op.name = "InsertSeed"
  /\ LookupAttribute(heap, op.node, op.tag).val.attribute_name = ""

\* C7: a lookup miss is a value.  In every Proto, a tag or name is found
\* exactly when it was inserted there, and a miss is the value None.
C7_MissIsAbsent ==
  \A n \in NodeIds : Live(heap, n) =>
    /\ \A t \in ProbeTags :
         LET r == LookupAttribute(heap, n, t)
         IN /\ r.some <=> t \in DOMAIN hist[n].attributes
            /\ ~r.some => r = None
    /\ \A nm \in ProbeNames :
         LET r == LookupContent(heap, n, nm)
         IN /\ r.some <=> nm \in hist[n].names
            /\ ~r.some => r = None
\* a Proto with a declared tag and a nested Proto, and misses on both maps
C7_Witness ==
  \E n \in NodeIds :
    /\ Live(heap, n)
    /\ \E t \in Tags : LookupAttribute(heap, n, t).some
    /\ \E t \in Tags : LookupAttribute(heap, n, t) = None
    /\ \E nm \in Names : LookupContent(heap, n, nm).some
    /\ LookupContent(heap, n, "Anything") = None

\* C9: a Proto only grows.  Over any step, a Proto that exists before and
\* after keeps its kind (the one it was constructed with), every tag it
\* declared and every name it had something stored under.
C9Step ==
  \A n \in NodeIds : (Live(heap, n) /\ Live(heap', n)) =>
    /\ heap'[n].kind_of = heap[n].kind_of
    /\ heap'[n].kind_of = hist'[n].kind_of
    /\ \A t \in ProbeTags :
         LookupAttribute(heap, n, t).some => LookupAttribute(heap', n, t).some
    /\ \A nm \in ProbeNames :
         LookupContent(heap, n, nm).some => LookupContent(heap', n, nm).some
Touches(o, s, q) ==
  CASE o.name \in {"InsertAttribute", "InsertSeed"} ->
         s = o.slot /\ IsPrefix(q, o.path)
    [] o.name \in {"InsertContent", "InsertClone"} ->
         \/ s = o.slot /\ IsPrefix(q, o.path \o <<o.key>>)
         \/ s = o.slot /\ IsPrefix(o.path \o <<o.key>>, q)
         \/ o.name = "InsertContent" /\ s = o.from
    [] OTHER -> FALSE
C3Step ==
  /\ op'.name \in {"InsertContent", "InsertClone"} =>
       Stored(heap', op'.node, op'.key) = op'.given
  /\ \A s \in Slots : \A q \in Paths(s) :
       (q # <<>> /\ ~Touches(op', s, q)) =>
          Tree(heap', Resolve(heap', slots'[s], q)) = Tree(heap, At(s, q))
C3_NoAliasing == [][C3Step]_vars
\* a nested Proto of the original was changed after the original was cloned,
\* and its copy is not what the original now is
C3_Witness ==
  /\ op.name = "InsertAttribute"
  /\ Len(op.path) >= 1
  /\ \E c \in NodeIds :
       /\ Live(heap, c)
       /\ hist[c].origin = op.node
       /\ Tree(heap, c) # Tree(heap, op.node)

\* C8: single writer, then many readers.  Once loading has completed, under
\* any interleaving of the decoders' lookups the tree stays what it was when
\* loading completed, and every lookup has returned what the same lookup
\* gives on that tree when nothing else runs.
Alone(c) ==
  LET h == published.heap
      n == Resolve(h, published.slots[c.slot], c.path)
  IN IF c.what = "attribute"
     THEN IF c.key \in DOMAIN h[n].attributes
          THEN Some(h[n].attributes[c.key]) ELSE None
     ELSE IF c.key \in DOMAIN h[n].contents
          THEN Some(Tree(h, h[n].contents[c.key])) ELSE None
C8_ReadersDoNotInterfere ==
  published.done =>
    /\ heap = published.heap
    /\ slots = published.slots
    /\ \A r \in Readers : rd[r].pc = "returned" => rd[r].ret = Alone(rd[r])
\* one decoder has found a nested Proto's attribute, the other has missed a
\* name
C8_Witness ==
  /\ published.done
  /\ rd["d1"].pc = "returned"
  /\ rd["d1"].what = "attribute"
  /\ Len(rd["d1"].path) >= 1
  /\ rd["d1"].ret.some
  /\ rd["d2"].pc = "returned"
  /\ rd["d2"].what = "content"
  /\ rd["d2"].ret = None

\* C1: from_str is total, exact and case-sensitive.  It returns Optional,
\* Repeated, Required or Map exactly for "optional", "repeated", "required"
\* and "map", and ParseProtoAnnotationError for every other string.
C1_ParseExact ==
  parse.done =>
    LET s == parse.input
        r == parse.result
    IN /\ r = [ok |-> TRUE, val |-> "Optional"]
            <=> s = <<"o", "p", "t", "i", "o", "n", "a", "l">>
       /\ r = [ok |-> TRUE, val |-> "Repeated"]
            <=> s = <<"r", "e", "p", "e", "a", "t", "e", "d">>
       /\ r = [ok |-> TRUE, val |-> "Required"]
            <=> s = <<"r", "e", "q", "u", "i", "r", "e", "d">>
       /\ r = [ok |-> TRUE, val |-> "Map"] <=> s = <<"m", "a", "p">>
       /\ r = [ok |-> FALSE]
            <=> s \notin {<<"o", "p", "t", "i", "o", "n", "a", "l">>,
                          <<"r", "e", "p", "e", "a", "t", "e", "d">>,
                          <<"r", "e", "q", "u", "i", "r", "e", "d">>,
                          <<"m", "a", "p">>}
       /\ r.ok => r.val \in ProtoAnnotation
\* "Repeated" was parsed
C1_Witness ==
  /\ parse.done
  /\ parse.input = <<"R", "e", "p", "e", "a", "t", "e", "d">>
  /\ ~parse.result.ok

\* C10: relu is elementwise max(x, 0).  The array returned has the shape of
\* the input; at every index its element is 0 where the input's is negative
\* and the input's where it is not (as f32 compares them), and is never NaN;
\* the input is as it was; relu of the result is the result; test_relu's
\* input gives test_relu's expected output.
C10_Relu ==
  relu.pc \in {"once", "twice"} =>
    /\ relu.x = relu.given
    /\ relu.y.shape = relu.x.shape
    /\ Len(relu.y.data) = Size(relu.x.shape)
    /\ \A ix \in Indices(relu.x.shape) :
         LET v == ElemAt(relu.x, ix)
             w == ElemAt(relu.y, ix)
         IN /\ ~w.nan
            /\ ~v.nan => F32Eq(w, IF Num(v) < 0 THEN F32(FALSE, 0) ELSE v)
    /\ relu.x = TestInput => relu.y = TestOutput
    /\ relu.pc = "twice" =>
         /\ relu.yy.shape = relu.y.shape
         /\ Len(relu.yy.data) = Len(relu.y.data)
         /\ \A ix \in Indices(relu.y.shape) :
              F32Eq(ElemAt(relu.yy, ix), ElemAt(relu.y, ix))
\* relu was applied twice to a 2 x 2 array with a negative element, a
\* positive one and a NaN
C10_Witness ==
  /\ relu.pc = "twice"
  /\ Size(relu.x.shape) = 4
  /\ \E ix \in Indices(relu.x.shape) : F32Lt(ElemAt(relu.x, ix), Zero)
  /\ \E ix \in Indices(relu.x.shape) : F32Lt(Zero, ElemAt(relu.x, ix))
  /\ \E ix \in Indices(relu.x.shape) : ElemAt(relu.x, ix).nan

====
